---- MODULE Spec2Model ----
(***************************************************************************)
(* A model of the Agora bridge (heaven_agora_bridge.cpp): the C ABI        *)
(* (heaven_agora_create .. heaven_agora_last_error), the Bridge object     *)
(* behind each handle, and the connection-observer callbacks the vendor    *)
(* SDK delivers on its own threads.                                        *)
(*                                                                         *)
(* Granularity.  Every std::lock_guard<std::mutex> section on Bridge::mu   *)
(* is one atomic step, so the mutex is free in every state between steps.  *)
(* A control operation of the host thread is one step as well: the fields  *)
(* it touches outside the mutex (service, connection, active_channel, ...) *)
(* are touched by no callback, and each of its locked sections commutes    *)
(* with, or overwrites, a callback section that could fall in between.     *)
(* A callback is one step per locked section, so callbacks of different    *)
(* vendor threads interleave with each other and with the host.            *)
(*                                                                         *)
(* The vendor SDK is an oracle: each of its calls returns any value of a   *)
(* small set (the "env" parameter of the operators below).                 *)
(***************************************************************************)
EXTENDS Integers, Sequences, FiniteSets, TLC

(***************************************************************************)
(* Bounds of the model.                                                    *)
(***************************************************************************)
MaxHandles == 2          \* handles alive at once in SpecProcess
NumThreads == 2          \* vendor callback threads (concurrent producers)
MaxCallbacks == 1        \* callbacks delivered in one behaviour of Spec
MaxEventCallbacks == 2   \* callbacks delivered in one behaviour of SpecEvents
MaxPresenceCallbacks == 4 \* callbacks delivered in one behaviour of SpecPresence
MaxErrorCallbacks == 3   \* callbacks delivered in one behaviour of SpecErrors

(***************************************************************************)
(* C values.                                                               *)
(***************************************************************************)
NULL == "<nullptr>"      \* a null const char*
NullHandle == 0          \* a null heaven_agora_handle*

HEAVEN_AGORA_EVENT_NONE == 0
HEAVEN_AGORA_EVENT_BOT_SPEAKING == 1
HEAVEN_AGORA_EVENT_BOT_SILENT == 2
HEAVEN_AGORA_EVENT_USER_JOINED == 3
HEAVEN_AGORA_EVENT_USER_LEFT == 4
HEAVEN_AGORA_EVENT_ERROR == 5

\* agora::rtc::CONNECTION_CHANGED_REASON_TYPE values the callbacks are given.
CONNECTION_CHANGED_LEAVE_CHANNEL == 5
CONNECTION_CHANGED_INTERRUPTED == 2

MessageSize == 256       \* sizeof(heaven_agora_event::message)

Abs(n) == IF n < 0 THEN -n ELSE n

Digit(d) ==
  CASE d = 0 -> "0" [] d = 1 -> "1" [] d = 2 -> "2" [] d = 3 -> "3"
    [] d = 4 -> "4" [] d = 5 -> "5" [] d = 6 -> "6" [] d = 7 -> "7"
    [] d = 8 -> "8" [] d = 9 -> "9"

RECURSIVE to_string(_)
\* std::to_string of an unsigned value: its decimal text.
to_string(n) == IF n < 10 THEN Digit(n) ELSE to_string(n \div 10) \o Digit(n % 10)

\* operator<< of an int: decimal text with a sign.
IntText(n) == IF n < 0 THEN "-" \o to_string(-n) ELSE to_string(n)

error_name(rc) ==
  CASE Abs(rc) = 0 -> "ERR_OK"
    [] Abs(rc) = 1 -> "ERR_FAILED"
    [] Abs(rc) = 2 -> "ERR_INVALID_ARGUMENT"
    [] Abs(rc) = 3 -> "ERR_NOT_READY"
    [] Abs(rc) = 4 -> "ERR_NOT_SUPPORTED"
    [] Abs(rc) = 5 -> "ERR_REFUSED"
    [] Abs(rc) = 7 -> "ERR_NOT_INITIALIZED"
    [] Abs(rc) = 8 -> "ERR_INVALID_STATE"
    [] Abs(rc) = 9 -> "ERR_NO_PERMISSION"
    [] Abs(rc) = 10 -> "ERR_TIMEDOUT"
    [] Abs(rc) = 22 -> "ERR_RESOURCE_LIMITED"
    [] Abs(rc) = 101 -> "ERR_INVALID_APP_ID"
    [] Abs(rc) = 109 -> "ERR_TOKEN_EXPIRED"
    [] Abs(rc) = 110 -> "ERR_INVALID_TOKEN"
    [] Abs(rc) = 77 -> "ERR_FALLBACK_RESTART_REQUIRED"
    [] OTHER -> "ERR_UNKNOWN"

make_error_message(phase, rc) ==
  phase \o " failed: rc=" \o IntText(rc) \o " (" \o error_name(rc) \o ")"
    \o (IF Abs(rc) = 3
        THEN "; hint=SDK not ready. On Linux this usually means audio device init failed for this SDK bundle."
        ELSE "")

\* strncpy(dst, message, dst_size - 1) and the terminator: what dst holds.
write_message(dst_size, message) ==
  IF Len(message) <= dst_size - 1 THEN message ELSE SubSeq(message, 1, dst_size - 1)

\* A user_id_t is a C string; here a sequence of one-character strings, or NULL.
IsDigit(c) == c \in {"0", "1", "2", "3", "4", "5", "6", "7", "8", "9"}

DigitValue(c) ==
  CASE c = "0" -> 0 [] c = "1" -> 1 [] c = "2" -> 2 [] c = "3" -> 3 [] c = "4" -> 4
    [] c = "5" -> 5 [] c = "6" -> 6 [] c = "7" -> 7 [] c = "8" -> 8 [] c = "9" -> 9

RECURSIVE strtoul(_)
strtoul(s) == IF s = <<>> THEN 0 ELSE 10 * strtoul(SubSeq(s, 1, Len(s) - 1)) + DigitValue(s[Len(s)])

NullUserId == <<"<nullptr>">>   \* a null user_id_t

\* The decimal digits of std::numeric_limits<uint32_t>::max(), 4294967295.
Uint32MaxDigits == <<4, 2, 9, 4, 9, 6, 7, 2, 9, 5>>

RECURSIVE StripZeros(_)
StripZeros(s) == IF s # <<>> /\ s[1] = "0" THEN StripZeros(Tail(s)) ELSE s

\* parsed > max for a digit string s, compared digit by digit.
ExceedsUint32(s) ==
  LET d == StripZeros(s)
      n == Len(Uint32MaxDigits)
  IN \/ Len(d) > n
     \/ /\ Len(d) = n
        /\ \E i \in 1..n : /\ DigitValue(d[i]) > Uint32MaxDigits[i]
                            /\ \A j \in 1..(i - 1) : DigitValue(d[j]) = Uint32MaxDigits[j]

\* Inputs here are unsigned decimal texts or texts strtoul stops in (no sign, no blanks).
parse_uid(user_id) ==
  IF user_id = NullUserId \/ user_id = <<>> THEN 0
  ELSE IF \E i \in 1..Len(user_id) : ~IsDigit(user_id[i]) THEN 0
  ELSE IF ExceedsUint32(user_id) THEN 0
  ELSE strtoul(user_id)

\* The key a callback stores in remote_users: userId ? userId : "".
UserKey(user_id) == IF user_id = NullUserId THEN <<>> ELSE user_id

(***************************************************************************)
(* The Bridge object (struct Bridge, lines 90-113).  A pointer field is    *)
(* TRUE when it is non-null.  log_file_path and sdk_data_dir are the paths *)
(* configure_runtime_paths derives when neither XDG_*_HOME nor HOME is set.*)
(***************************************************************************)
log_file_path == "/tmp/heaven-gpui/agora/agorasdk.log"
sdk_data_dir == "/tmp/heaven-gpui/agora"

NewBridge(app_id_value) ==
  [ app_id |-> IF app_id_value = NULL THEN "" ELSE app_id_value,
    area_cn_only |-> FALSE,
    mic_enabled |-> TRUE,
    audio_published |-> FALSE,
    active_channel |-> "",
    active_token |-> "",
    active_uid |-> "",
    service |-> FALSE,
    connection |-> FALSE,
    local_user |-> FALSE,
    local_audio_track |-> FALSE,
    events |-> <<>>,
    bot_speaking |-> FALSE,
    remote_users |-> {},
    last_error |-> "",
    audio_processor_enabled |-> TRUE,
    audio_device_enabled |-> TRUE,
    teardown_unsafe |-> FALSE ]

\* The value of bridge[h] while no Bridge is allocated for h.
NoBridge == NewBridge(NULL)

set_last_error(b, message) == [b EXCEPT !.last_error = message]

get_last_error(b) == b.last_error

clear_last_error(b) == [b EXCEPT !.last_error = ""]

(***************************************************************************)
(* What an operation did: the Bridge after it (b), whether the vendor      *)
(* connection has this Bridge registered as its observer (obs), the        *)
(* returned status (rc), the vendor calls made in order (calls), whether   *)
(* g_fallback_runtime_active was stored (latch), whether the full branch   *)
(* of shutdown ran (full), and whether a null pointer was dereferenced     *)
(* (ub).  A vendor call that returns a pointer is recorded with rc 0 for   *)
(* a non-null result and rc 1 for null.                                    *)
(***************************************************************************)
Call(fn, arg, rc) == [fn |-> fn, arg |-> arg, rc |-> rc]

Outcome(b, obs) ==
  [b |-> b, obs |-> obs, rc |-> 0, calls |-> <<>>, latch |-> FALSE, full |-> FALSE, ub |-> FALSE]

BoolText(v) == IF v THEN "1" ELSE "0"

\* The state-only reset both branches of shutdown end with (under mu).
ResetSessionState(b) ==
  [b EXCEPT !.remote_users = {}, !.bot_speaking = FALSE,
            !.active_channel = "", !.active_token = "", !.active_uid = ""]

\* A faulty shutdown that disconnects before it unregisters the observer.
shutdown_disconnect_first(o) ==
  IF o.b.teardown_unsafe
  THEN [o EXCEPT !.b = ResetSessionState(@)]
  ELSE LET b == o.b
           unreg == IF b.connection THEN <<Call("unregisterObserver", "", 0)>> ELSE <<>>
           unpub == IF b.local_user /\ b.local_audio_track /\ b.audio_published
                    THEN <<Call("unpublishAudio", "", 0)>> ELSE <<>>
           disc == IF b.connection THEN <<Call("disconnect", "", 0)>> ELSE <<>>
           reltrack == IF b.local_audio_track THEN <<Call("release", "track", 0)>> ELSE <<>>
           relconn == IF b.connection THEN <<Call("release", "connection", 0)>> ELSE <<>>
           relsvc == IF b.service THEN <<Call("release", "service", 0)>> ELSE <<>>
       IN [o EXCEPT !.b = ResetSessionState(
                            [b EXCEPT !.local_audio_track = FALSE, !.local_user = FALSE,
                                      !.audio_published = FALSE, !.connection = FALSE,
                                      !.service = FALSE]),
                    !.obs = FALSE,
                    !.calls = @ \o disc \o unpub \o unreg \o reltrack \o relconn \o relsvc,
                    !.full = TRUE]

\* A faulty shutdown that forgets audio_published = false.
shutdown_keep_published(o) ==
  IF o.b.teardown_unsafe
  THEN [o EXCEPT !.b = ResetSessionState(@)]
  ELSE LET b == o.b
           unreg == IF b.connection THEN <<Call("unregisterObserver", "", 0)>> ELSE <<>>
           unpub == IF b.local_user /\ b.local_audio_track /\ b.audio_published
                    THEN <<Call("unpublishAudio", "", 0)>> ELSE <<>>
           disc == IF b.connection THEN <<Call("disconnect", "", 0)>> ELSE <<>>
           reltrack == IF b.local_audio_track THEN <<Call("release", "track", 0)>> ELSE <<>>
           relconn == IF b.connection THEN <<Call("release", "connection", 0)>> ELSE <<>>
           relsvc == IF b.service THEN <<Call("release", "service", 0)>> ELSE <<>>
       IN [o EXCEPT !.b = ResetSessionState(
                            [b EXCEPT !.local_audio_track = FALSE, !.local_user = FALSE,
                                      !.connection = FALSE, !.service = FALSE]),
                    !.obs = FALSE,
                    !.calls = @ \o unreg \o unpub \o disc \o reltrack \o relconn \o relsvc,
                    !.full = TRUE]

shutdown(o) ==
  IF o.b.teardown_unsafe
  THEN [o EXCEPT !.b = ResetSessionState(@)]
  ELSE LET b == o.b
           unreg == IF b.connection THEN <<Call("unregisterObserver", "", 0)>> ELSE <<>>
           unpub == IF b.local_user /\ b.local_audio_track /\ b.audio_published
                    THEN <<Call("unpublishAudio", "", 0)>> ELSE <<>>
           disc == IF b.connection THEN <<Call("disconnect", "", 0)>> ELSE <<>>
           reltrack == IF b.local_audio_track THEN <<Call("release", "track", 0)>> ELSE <<>>
           relconn == IF b.connection THEN <<Call("release", "connection", 0)>> ELSE <<>>
           relsvc == IF b.service THEN <<Call("release", "service", 0)>> ELSE <<>>
       IN [o EXCEPT !.b = ResetSessionState(
                            [b EXCEPT !.local_audio_track = FALSE, !.local_user = FALSE,
                                      !.audio_published = FALSE, !.connection = FALSE,
                                      !.service = FALSE]),
                    !.obs = FALSE,
                    !.calls = @ \o unreg \o unpub \o disc \o reltrack \o relconn \o relsvc,
                    !.full = TRUE]

\* A faulty should_skip_destroy that never skips.
should_skip_destroy_never(b) == FALSE

should_skip_destroy(b) == b.teardown_unsafe

\* build_config: the AgoraServiceConfiguration handed to service->initialize.
build_config(b, enable_audio_processor, enable_audio_device) ==
  "audio_processor=" \o BoolText(enable_audio_processor)
    \o ",audio_device=" \o BoolText(enable_audio_device)
    \o ",area=" \o (IF b.area_cn_only THEN "CN" ELSE "GLOB")

InitializeFailedMessage(b, rc) ==
  make_error_message("initialize", rc)
    \o "; app_id_len=" \o to_string(Len(b.app_id))
    \o "; area=" \o (IF b.area_cn_only THEN "CN" ELSE "GLOB")
    \o "; config=(audio_processor=" \o BoolText(b.audio_processor_enabled)
    \o ",audio_device=" \o BoolText(b.audio_device_enabled) \o ")"
    \o "; log_file=" \o log_file_path
    \o "; data_dir=" \o sdk_data_dir

\* A faulty initialize step that retries after a failure of any class.
InitializeService_retry_any(o, env) ==
  LET b1 == [clear_last_error(o.b) EXCEPT !.audio_processor_enabled = TRUE,
                                          !.audio_device_enabled = TRUE,
                                          !.teardown_unsafe = FALSE]
      first(rc) == Call("initialize", build_config(b1, TRUE, TRUE), rc)
      retry(rc) == Call("initialize", build_config(b1, FALSE, TRUE), rc)
      failed(rc, calls) ==
        [o EXCEPT !.b = [set_last_error(b1, InitializeFailedMessage(b1, rc)) EXCEPT !.service = FALSE],
                  !.rc = rc,
                  !.calls = @ \o calls \o <<Call("release", "service", 0)>>]
  IN UNION {
       IF rc # 0
       THEN { IF fallback_rc = 0
              THEN [o EXCEPT !.b = [b1 EXCEPT !.audio_processor_enabled = FALSE,
                                              !.audio_device_enabled = TRUE,
                                              !.teardown_unsafe = TRUE],
                             !.latch = TRUE,
                             !.calls = @ \o <<first(rc), retry(fallback_rc)>>]
              ELSE failed(fallback_rc, <<first(rc), retry(fallback_rc)>>)
              : fallback_rc \in env.fallback_rcs }
       ELSE { [o EXCEPT !.b = b1, !.calls = @ \o <<first(rc)>>] }
       : rc \in env.init_rcs }

\* Lines 213-256: the first service->initialize, the retry, the failure exit.
\* o.b.service is set.  An outcome with rc = 0 goes on to CreateConnection.
InitializeService(o, env) ==
  LET b1 == [clear_last_error(o.b) EXCEPT !.audio_processor_enabled = TRUE,
                                          !.audio_device_enabled = TRUE,
                                          !.teardown_unsafe = FALSE]
      first(rc) == Call("initialize", build_config(b1, TRUE, TRUE), rc)
      retry(rc) == Call("initialize", build_config(b1, FALSE, TRUE), rc)
      failed(rc, calls) ==
        [o EXCEPT !.b = [set_last_error(b1, InitializeFailedMessage(b1, rc)) EXCEPT !.service = FALSE],
                  !.rc = rc,
                  !.calls = @ \o calls \o <<Call("release", "service", 0)>>]
  IN UNION {
       IF rc # 0 /\ Abs(rc) = 3
       THEN { IF fallback_rc = 0
              THEN [o EXCEPT !.b = [b1 EXCEPT !.audio_processor_enabled = FALSE,
                                              !.audio_device_enabled = TRUE,
                                              !.teardown_unsafe = TRUE],
                             !.latch = TRUE,
                             !.calls = @ \o <<first(rc), retry(fallback_rc)>>]
              ELSE failed(fallback_rc, <<first(rc), retry(fallback_rc)>>)
              : fallback_rc \in env.fallback_rcs }
       ELSE IF rc # 0
       THEN { failed(rc, <<first(rc)>>) }
       ELSE { [o EXCEPT !.b = b1, !.calls = @ \o <<first(rc)>>] }
       : rc \in env.init_rcs }

\* A faulty track step that creates the track without the audio processor too.
CreateLocalAudioTrack_always(o, env) ==
  UNION {
    IF null
    THEN { shutdown([o EXCEPT !.b = set_last_error(@, "createLocalAudioTrack failed: returned null"),
                              !.calls = @ \o <<Call("createLocalAudioTrack", "", 1)>>,
                              !.rc = -5]) }
    ELSE { LET o1 == [o EXCEPT !.b.local_audio_track = TRUE,
                               !.calls = @ \o <<Call("createLocalAudioTrack", "", 0),
                                                Call("setEnabled", BoolText(o.b.mic_enabled), rc)>>]
           IN IF rc # 0
              THEN shutdown([o1 EXCEPT !.b = set_last_error(@, make_error_message("localAudioTrack.setEnabled", rc)),
                                       !.rc = rc])
              ELSE [o1 EXCEPT !.b = clear_last_error(@)]
           : rc \in env.rcs }
    : null \in env.nulls }

\* Lines 286-310: the local audio track, or none without the audio processor.
CreateLocalAudioTrack(o, env) ==
  IF o.b.audio_processor_enabled
  THEN UNION {
         IF null
         THEN { shutdown([o EXCEPT !.b = set_last_error(@, "createLocalAudioTrack failed: returned null"),
                                   !.calls = @ \o <<Call("createLocalAudioTrack", "", 1)>>,
                                   !.rc = -5]) }
         ELSE { LET o1 == [o EXCEPT !.b.local_audio_track = TRUE,
                                    !.calls = @ \o <<Call("createLocalAudioTrack", "", 0),
                                                     Call("setEnabled", BoolText(o.b.mic_enabled), rc)>>]
                IN IF rc # 0
                   THEN shutdown([o1 EXCEPT !.b = set_last_error(@, make_error_message("localAudioTrack.setEnabled", rc)),
                                            !.rc = rc])
                   ELSE [o1 EXCEPT !.b = clear_last_error(@)]
                : rc \in env.rcs }
         : null \in env.nulls }
  ELSE { [o EXCEPT !.b = clear_last_error([@ EXCEPT !.local_audio_track = FALSE])] }

\* Lines 279-290: the local user and its role.
GetLocalUser(o, env) ==
  UNION {
    IF null
    THEN { shutdown([o EXCEPT !.b = set_last_error(@, "getLocalUser failed: returned null"),
                              !.calls = @ \o <<Call("getLocalUser", "", 1)>>,
                              !.rc = -4]) }
    ELSE CreateLocalAudioTrack(
           [o EXCEPT !.b.local_user = TRUE,
                     !.calls = @ \o <<Call("getLocalUser", "", 0)>>
                                 \o (IF o.b.audio_processor_enabled
                                     THEN <<Call("setUserRole", "CLIENT_ROLE_BROADCASTER", 0)>>
                                     ELSE <<>>)],
           env)
    : null \in env.nulls }

\* Lines 272-277.
RegisterObserver(o, env) ==
  UNION {
    IF rc # 0
    THEN { shutdown([o EXCEPT !.b = set_last_error(@, make_error_message("registerObserver", rc)),
                              !.calls = @ \o <<Call("registerObserver", "", rc)>>,
                              !.rc = rc]) }
    ELSE GetLocalUser([o EXCEPT !.obs = TRUE,
                                !.calls = @ \o <<Call("registerObserver", "", 0)>>], env)
    : rc \in env.rcs }

\* Lines 258-270.
CreateConnection(o, env) ==
  LET arg == "enableAudioRecordingOrPlayout=" \o BoolText(o.b.audio_device_enabled)
  IN UNION {
       IF null
       THEN { shutdown([o EXCEPT !.b = set_last_error(@, "createRtcConnection failed: service->createRtcConnection returned null"),
                                 !.calls = @ \o <<Call("createRtcConnection", arg, 1)>>,
                                 !.rc = -3]) }
       ELSE RegisterObserver([o EXCEPT !.b.connection = TRUE,
                                       !.calls = @ \o <<Call("createRtcConnection", arg, 0)>>], env)
       : null \in env.nulls }

initialize_if_needed(o, env) ==
  IF o.b.service THEN { o }
  ELSE IF o.b.app_id = ""
  THEN { [o EXCEPT !.b = set_last_error(@, "initialize failed: missing Agora app id"), !.rc = -1] }
  ELSE UNION {
         IF null
         THEN { [o EXCEPT !.b = set_last_error(@, "initialize failed: createAgoraService returned null"),
                          !.calls = @ \o <<Call("createAgoraService", "", 1)>>,
                          !.rc = -2] }
         ELSE UNION { IF i.rc # 0 THEN { i } ELSE CreateConnection(i, env)
                      : i \in InitializeService(
                                [o EXCEPT !.b.service = TRUE,
                                          !.calls = @ \o <<Call("createAgoraService", "", 0)>>], env) }
         : null \in env.nulls }

\* A faulty publish step that does not look at audio_published.
PublishAudio_again(o, env) ==
  IF o.b.local_user /\ o.b.local_audio_track
  THEN { IF rc # 0
         THEN shutdown([o EXCEPT !.b = set_last_error(@, make_error_message("publishAudio", rc)),
                                 !.calls = @ \o <<Call("publishAudio", "", rc)>>,
                                 !.rc = rc])
         ELSE [o EXCEPT !.b = clear_last_error([@ EXCEPT !.audio_published = TRUE]),
                        !.calls = @ \o <<Call("publishAudio", "", 0)>>]
         : rc \in env.rcs }
  ELSE { [o EXCEPT !.b = clear_last_error(@)] }

\* Lines 330-341: publish the microphone track once, then success.
PublishAudio(o, env) ==
  IF o.b.local_user /\ o.b.local_audio_track /\ ~o.b.audio_published
  THEN { IF rc # 0
         THEN shutdown([o EXCEPT !.b = set_last_error(@, make_error_message("publishAudio", rc)),
                                 !.calls = @ \o <<Call("publishAudio", "", rc)>>,
                                 !.rc = rc])
         ELSE [o EXCEPT !.b = clear_last_error([@ EXCEPT !.audio_published = TRUE]),
                        !.calls = @ \o <<Call("publishAudio", "", 0)>>]
         : rc \in env.rcs }
  ELSE { [o EXCEPT !.b = clear_last_error(@)] }

\* Lines 321-328: store channel/token/uid and connect.  connection-> on a null
\* connection is undefined behaviour (ub).
Connect(o, channel, token, uid, env) ==
  LET b1 == [o.b EXCEPT !.active_channel = channel,
                        !.active_token = IF token = NULL THEN "" ELSE token,
                        !.active_uid = to_string(uid)]
      arg == b1.active_token \o "," \o b1.active_channel \o "," \o b1.active_uid
  IN UNION {
       LET o1 == [o EXCEPT !.b = b1,
                           !.calls = @ \o <<Call("connect", arg, rc)>>,
                           !.ub = ~o.b.connection]
       IN IF rc # 0
          THEN { [o1 EXCEPT !.b = set_last_error(@, make_error_message("connect", rc)), !.rc = rc] }
          ELSE PublishAudio(o1, env)
       : rc \in env.rcs }

\* A faulty join that stores the channel, token and uid before it checks the channel.
join_store_first(o, channel, token, uid, env) ==
  IF channel = NULL \/ channel = ""
  THEN { [o EXCEPT !.b = set_last_error([@ EXCEPT !.active_channel = "",
                                                  !.active_token = IF token = NULL THEN "" ELSE token,
                                                  !.active_uid = to_string(uid)],
                                        "join failed: missing channel"),
                   !.rc = -1] }
  ELSE UNION { IF i.rc # 0 THEN { i } ELSE Connect(i, channel, token, uid, env)
               : i \in initialize_if_needed(o, env) }

join(o, channel, token, uid, env) ==
  IF channel = NULL \/ channel = ""
  THEN { [o EXCEPT !.b = set_last_error(@, "join failed: missing channel"), !.rc = -1] }
  ELSE UNION { IF i.rc # 0 THEN { i } ELSE Connect(i, channel, token, uid, env)
               : i \in initialize_if_needed(o, env) }

\* A faulty leave that does not clear last_error after the full shutdown.
leave_keep_error(o) ==
  IF ~o.b.connection
  THEN [o EXCEPT !.b = set_last_error(@, "leave failed: no active connection"), !.rc = -2]
  ELSE IF o.b.teardown_unsafe
  THEN [o EXCEPT !.b = clear_last_error(@)]
  ELSE shutdown(o)

leave(o) ==
  IF ~o.b.connection
  THEN [o EXCEPT !.b = set_last_error(@, "leave failed: no active connection"), !.rc = -2]
  ELSE IF o.b.teardown_unsafe
  THEN [o EXCEPT !.b = clear_last_error(@)]
  ELSE [shutdown(o) EXCEPT !.b = clear_last_error(@)]

\* A faulty set_mic_enabled that stores the intent only when the track took it.
set_mic_enabled_store_on_success(o, enabled, env) ==
  IF ~o.b.audio_processor_enabled
  THEN { [o EXCEPT !.b = set_last_error(@, "set_mic_enabled ignored: audio processor fallback mode is active")] }
  ELSE IF ~o.b.local_audio_track
  THEN { [o EXCEPT !.b = set_last_error(@, "set_mic_enabled failed: local audio track is not initialized"),
                   !.rc = -2] }
  ELSE { [o EXCEPT !.b = IF rc # 0 THEN set_last_error(@, make_error_message("set_mic_enabled", rc))
                         ELSE clear_last_error([@ EXCEPT !.mic_enabled = enabled]),
                   !.calls = @ \o <<Call("setEnabled", BoolText(enabled), rc)>>,
                   !.rc = rc]
         : rc \in env.rcs }

set_mic_enabled(o, enabled, env) ==
  LET b1 == [o.b EXCEPT !.mic_enabled = enabled]
  IN IF ~b1.audio_processor_enabled
     THEN { [o EXCEPT !.b = set_last_error(b1, "set_mic_enabled ignored: audio processor fallback mode is active")] }
     ELSE IF ~b1.local_audio_track
     THEN { [o EXCEPT !.b = set_last_error(b1, "set_mic_enabled failed: local audio track is not initialized"),
                      !.rc = -2] }
     ELSE { [o EXCEPT !.b = IF rc # 0 THEN set_last_error(b1, make_error_message("set_mic_enabled", rc))
                            ELSE clear_last_error(b1),
                      !.calls = @ \o <<Call("setEnabled", BoolText(enabled), rc)>>,
                      !.rc = rc]
            : rc \in env.rcs }

\* A faulty set_area_cn_only that stores the preference before it checks the engine.
set_area_cn_only_unchecked(o, enabled) ==
  IF o.b.service
  THEN [o EXCEPT !.b = set_last_error([@ EXCEPT !.area_cn_only = enabled],
                                      "set_area_cn failed: engine is already initialized"),
                 !.rc = -3]
  ELSE [o EXCEPT !.b = clear_last_error([@ EXCEPT !.area_cn_only = enabled])]

set_area_cn_only(o, enabled) ==
  IF o.b.service
  THEN [o EXCEPT !.b = set_last_error(@, "set_area_cn failed: engine is already initialized"), !.rc = -3]
  ELSE [o EXCEPT !.b = clear_last_error([@ EXCEPT !.area_cn_only = enabled])]

(***************************************************************************)
(* The event queue.  An event carries, beside the four fields of           *)
(* heaven_agora_event, a history field tag = <<thread, n>>: it is the n-th *)
(* event the vendor thread pushed.  No operation reads the tag.            *)
(***************************************************************************)
Event(kind, uid, value, message, tag) ==
  [kind |-> kind, uid |-> uid, value |-> value, message |-> message, tag |-> tag]

NoEvent == Event(HEAVEN_AGORA_EVENT_NONE, 0, 0, "", <<0, 0>>)

push_event(b, kind, uid, value, message, tag) ==
  [b EXCEPT !.events = Append(@, Event(kind, uid, value, write_message(MessageSize, message), tag))]

\* A faulty pop_event that takes the newest event (events.back(), pop_back).
pop_event_back(b, out_null, out) ==
  IF out_null THEN [rc |-> -1, b |-> b, ev |-> out]
  ELSE IF b.events = <<>> THEN [rc |-> 1, b |-> b, ev |-> out]
  ELSE [rc |-> 0, b |-> [b EXCEPT !.events = SubSeq(@, 1, Len(@) - 1)],
        ev |-> b.events[Len(b.events)]]

\* A faulty pop_event that copies the head event and forgets pop_front.
pop_event_peek(b, out_null, out) ==
  IF out_null THEN [rc |-> -1, b |-> b, ev |-> out]
  ELSE IF b.events = <<>> THEN [rc |-> 1, b |-> b, ev |-> out]
  ELSE [rc |-> 0, b |-> b, ev |-> Head(b.events)]

\* The status, the Bridge afterwards and what *out_event holds (out the value before).
pop_event(b, out_null, out) ==
  IF out_null THEN [rc |-> -1, b |-> b, ev |-> out]
  ELSE IF b.events = <<>> THEN [rc |-> 1, b |-> b, ev |-> out]
  ELSE [rc |-> 0, b |-> [b EXCEPT !.events = Tail(@)], ev |-> Head(b.events)]

(***************************************************************************)
(* The locked sections of the participant and disconnect callbacks.        *)
(***************************************************************************)
\* A faulty onUserJoined that emits BotSpeaking for every newly inserted participant.
onUserJoined_locked_every(b, user_id) ==
  LET inserted == UserKey(user_id) \notin b.remote_users
      emit == inserted
  IN [b |-> [b EXCEPT !.remote_users = @ \cup {UserKey(user_id)},
                      !.bot_speaking = IF emit THEN TRUE ELSE @],
      emit |-> emit]

onUserJoined_locked(b, user_id) ==
  LET inserted == UserKey(user_id) \notin b.remote_users
      emit == inserted /\ ~b.bot_speaking
  IN [b |-> [b EXCEPT !.remote_users = @ \cup {UserKey(user_id)},
                      !.bot_speaking = IF emit THEN TRUE ELSE @],
      emit |-> emit]

onUserLeft_locked(b, user_id) ==
  LET users == b.remote_users \ {UserKey(user_id)}
      emit == users = {} /\ b.bot_speaking
  IN [b |-> [b EXCEPT !.remote_users = users,
                      !.bot_speaking = IF emit THEN FALSE ELSE @],
      emit |-> emit]

\* A faulty onDisconnected that forgets remote_users.clear().
onDisconnected_locked_keep_users(b) ==
  [b |-> [b EXCEPT !.bot_speaking = FALSE],
   emit |-> b.bot_speaking]

onDisconnected_locked(b) ==
  [b |-> [b EXCEPT !.remote_users = {}, !.bot_speaking = FALSE],
   emit |-> b.bot_speaking]

(***************************************************************************)
(* The state.                                                              *)
(***************************************************************************)
VARIABLES
  g_fallback_runtime_active,  \* the process-wide std::atomic<bool>
  handles,     \* the heaven_agora_handle objects created and not destroyed
  bridge,      \* bridge[h]: the Bridge of handle h (kept when destroy leaks it)
  observer,    \* observer[h]: the vendor connection has bridge[h] registered
  cb,          \* cb[t]: where vendor thread t is in the callback it runs
  delivered,   \* callbacks the vendor has started so far
  pushlog,     \* history: every push_event, in order, as [h, ev]
  poplog,      \* history: every event a successful pop returned, as [h, ev]
  cblog,       \* history: every callback delivered, as [h, fn, user, reason]
  ret,         \* the last C ABI call: its name, handle, status and outputs
  calls,       \* the vendor calls the last C ABI call made, in order
  pubs,        \* pubs[h]: publishAudio calls that succeeded since the last full shutdown
  crashed      \* a null pointer was dereferenced and the process died

vars == <<g_fallback_runtime_active, handles, bridge, observer, cb, delivered,
          pushlog, poplog, cblog, ret, calls, pubs, crashed>>

HandleIds == 1..MaxHandles
Threads == 1..NumThreads

IdleThread ==
  [fn |-> "", pc |-> "idle", h |-> NullHandle, uid |-> 0, value |-> 0, message |-> "", emit |-> FALSE,
   q |-> [threads |-> {}, cap |-> 0, log |-> FALSE, users |-> {}, reasons |-> {}, notices |-> {},
         errors |-> {}]]

Ret(op, h, args, rc) == [op |-> op, h |-> h, args |-> args, rc |-> rc, ev |-> NoEvent, text |-> ""]

Init ==
  /\ g_fallback_runtime_active = FALSE
  /\ handles = {}
  /\ bridge = [h \in HandleIds |-> NoBridge]
  /\ observer = [h \in HandleIds |-> FALSE]
  /\ cb = [t \in Threads |-> IdleThread]
  /\ delivered = 0
  /\ pushlog = <<>>
  /\ poplog = <<>>
  /\ cblog = <<>>
  /\ ret = Ret("", NullHandle, <<>>, 0)
  /\ calls = <<>>
  /\ pubs = [h \in HandleIds |-> 0]
  /\ crashed = FALSE

RECURSIVE SelectSeq2(_, _)
\* The entries of a log that belong to handle h.
SelectSeq2(log, h) ==
  IF log = <<>> THEN <<>>
  ELSE IF Head(log).h = h THEN <<Head(log)>> \o SelectSeq2(Tail(log), h)
  ELSE SelectSeq2(Tail(log), h)

RECURSIVE DropHandle(_, _)
DropHandle(log, h) ==
  IF log = <<>> THEN <<>>
  ELSE IF Head(log).h = h THEN DropHandle(Tail(log), h)
  ELSE <<Head(log)>> \o DropHandle(Tail(log), h)

RECURSIVE CountCalls(_, _)
\* The calls of fn in cs that returned 0.
CountCalls(cs, fn) ==
  IF cs = <<>> THEN 0
  ELSE (IF Head(cs).fn = fn /\ Head(cs).rc = 0 THEN 1 ELSE 0) + CountCalls(Tail(cs), fn)

\* A history log after event ev of handle h, where the specification keeps histories.
Logged(log, q, h, ev) == IF q.log THEN Append(log, [h |-> h, ev |-> ev]) ELSE log

\* The callback history after thread-independent delivery of fn to handle h.
Delivered(q, h, fn, uid, value) ==
  IF q.log THEN Append(cblog, [h |-> h, fn |-> fn, uid |-> uid, value |-> value]) ELSE cblog

InFlight(h) == \E t \in Threads : cb[t].pc # "idle" /\ cb[t].h = h

\* A control operation on handle h ended with outcome o.
Apply(op, h, args, o) ==
  /\ bridge' = [bridge EXCEPT ![h] = o.b]
  /\ observer' = [observer EXCEPT ![h] = o.obs]
  /\ g_fallback_runtime_active' = (g_fallback_runtime_active \/ o.latch)
  /\ calls' = o.calls
  /\ ret' = Ret(op, h, args, o.rc)
  /\ pubs' = [pubs EXCEPT ![h] = IF o.full THEN 0 ELSE @ + CountCalls(o.calls, "publishAudio")]
  /\ crashed' \in (IF o.ub THEN BOOLEAN ELSE {FALSE})
  /\ UNCHANGED <<handles, cb, delivered, pushlog, poplog, cblog>>

\* A call rejected by the C wrapper before it reaches the Bridge.
Rejected(op, h, args, rc) ==
  /\ ret' = Ret(op, h, args, rc)
  /\ calls' = <<>>
  /\ UNCHANGED <<g_fallback_runtime_active, handles, bridge, observer, cb, delivered,
                 pushlog, poplog, cblog, pubs, crashed>>

(***************************************************************************)
(* The C ABI (lines 586-656).  ids: the handle addresses the allocator may *)
(* hand out; env: what the vendor may return.                              *)
(***************************************************************************)
\* A faulty heaven_agora_create that does not load g_fallback_runtime_active.
heaven_agora_create_status_unlatched(app_id, out_null, latch) ==
  IF app_id = NULL \/ out_null THEN -1
  ELSE 0

heaven_agora_create_status(app_id, out_null, latch) ==
  IF app_id = NULL \/ out_null THEN -1
  ELSE IF latch THEN -77
  ELSE 0

heaven_agora_create(app_id, out_null, ids) ==
  /\ ~crashed
  /\ LET rc == heaven_agora_create_status(app_id, out_null, g_fallback_runtime_active)
         args == <<app_id, BoolText(out_null)>>
     IN IF rc # 0
        THEN Rejected("create", NullHandle, args, rc)
        ELSE \E h \in ids \ handles :
               /\ \A k \in ids \ handles : h <= k
               /\ handles' = handles \cup {h}
               /\ bridge' = [bridge EXCEPT ![h] = NewBridge(app_id)]
               /\ observer' = [observer EXCEPT ![h] = FALSE]
               /\ pubs' = [pubs EXCEPT ![h] = 0]
               /\ pushlog' = DropHandle(pushlog, h)
               /\ poplog' = DropHandle(poplog, h)
               /\ cblog' = DropHandle(cblog, h)
               /\ ret' = Ret("create", h, args, 0)
               /\ calls' = <<>>
               /\ UNCHANGED <<g_fallback_runtime_active, cb, delivered, crashed>>

\* delete handle runs ~Bridge, which runs shutdown; the skip path leaks the Bridge.
heaven_agora_destroy(h) ==
  /\ ~crashed
  /\ IF h = NullHandle
     THEN Rejected("destroy", h, <<>>, 0)
     ELSE IF should_skip_destroy(bridge[h])
     THEN /\ handles' = handles \ {h}
          /\ ret' = Ret("destroy", h, <<>>, 0)
          /\ calls' = <<>>
          /\ UNCHANGED <<g_fallback_runtime_active, bridge, observer, cb, delivered,
                         pushlog, poplog, cblog, pubs, crashed>>
     ELSE /\ ~InFlight(h)
          /\ LET o == shutdown(Outcome(bridge[h], observer[h]))
             IN /\ handles' = handles \ {h}
                /\ bridge' = [bridge EXCEPT ![h] = NoBridge]
                /\ observer' = [observer EXCEPT ![h] = FALSE]
                /\ pubs' = [pubs EXCEPT ![h] = 0]
                /\ calls' = o.calls
                /\ ret' = Ret("destroy", h, <<>>, 0)
                /\ UNCHANGED <<g_fallback_runtime_active, cb, delivered, pushlog, poplog, cblog, crashed>>

heaven_agora_join(h, channel, token, uid, env) ==
  /\ ~crashed
  /\ IF h = NullHandle \/ channel = NULL
     THEN Rejected("join", h, <<channel, token, to_string(uid)>>, -1)
     ELSE \E o \in join(Outcome(bridge[h], observer[h]), channel, token, uid, env) :
            Apply("join", h, <<channel, token, to_string(uid)>>, o)

heaven_agora_leave(h) ==
  /\ ~crashed
  /\ IF h = NullHandle
     THEN Rejected("leave", h, <<>>, -1)
     ELSE Apply("leave", h, <<>>, leave(Outcome(bridge[h], observer[h])))

heaven_agora_set_mic_enabled(h, enabled, env) ==
  /\ ~crashed
  /\ IF h = NullHandle
     THEN Rejected("set_mic_enabled", h, <<BoolText(enabled)>>, -1)
     ELSE \E o \in set_mic_enabled(Outcome(bridge[h], observer[h]), enabled, env) :
            Apply("set_mic_enabled", h, <<BoolText(enabled)>>, o)

heaven_agora_set_area_cn(h, enabled) ==
  /\ ~crashed
  /\ IF h = NullHandle
     THEN Rejected("set_area_cn", h, <<BoolText(enabled)>>, -1)
     ELSE Apply("set_area_cn", h, <<BoolText(enabled)>>, set_area_cn_only(Outcome(bridge[h], observer[h]), enabled))

heaven_agora_poll_event(h, out_null, q) ==
  /\ ~crashed
  /\ IF h = NullHandle
     THEN Rejected("poll_event", h, <<BoolText(out_null)>>, -1)
     ELSE LET r == pop_event(bridge[h], out_null, NoEvent)
          IN /\ bridge' = [bridge EXCEPT ![h] = r.b]
             /\ ret' = [Ret("poll_event", h, <<BoolText(out_null)>>, r.rc) EXCEPT !.ev = r.ev]
             /\ poplog' = IF r.rc = 0 THEN Logged(poplog, q, h, r.ev) ELSE poplog
             /\ calls' = <<>>
             /\ UNCHANGED <<g_fallback_runtime_active, handles, observer, cb, delivered,
                            pushlog, cblog, pubs, crashed>>

heaven_agora_last_error(h, out_null, out_size) ==
  /\ ~crashed
  /\ IF h = NullHandle \/ out_null \/ out_size = 0
     THEN Rejected("last_error", h, <<BoolText(out_null), to_string(out_size)>>, -1)
     ELSE /\ ret' = [Ret("last_error", h, <<BoolText(out_null), to_string(out_size)>>, 0) EXCEPT !.text = write_message(out_size, get_last_error(bridge[h]))]
          /\ calls' = <<>>
          /\ UNCHANGED <<g_fallback_runtime_active, handles, bridge, observer, cb, delivered,
                         pushlog, poplog, cblog, pubs, crashed>>

(***************************************************************************)
(* The IRtcConnectionObserver callbacks (lines 458-577), run by vendor     *)
(* thread t on the Bridge registered as observer.  A specification bounds  *)
(* the callbacks the vendor delivers (q.cap) and says whether the history  *)
(* variables pushlog, poplog and cblog are kept (q.log).  The callbacks   *)
(* with an empty body (onConnected,                                        *)
(* onConnecting, onReconnecting, onReconnected, onCustomUserInfoUpdated,   *)
(* onLastmileQuality, onLastmileProbeResult, onTransportStats,             *)
(* onChannelMediaRelayStateChanged) change nothing and are left out.       *)
(***************************************************************************)
CanDeliver(t, h, q) ==
  /\ ~crashed
  /\ cb[t].pc = "idle"
  /\ observer[h]
  /\ delivered < q.cap

RECURSIVE PushesBy(_, _)
PushesBy(log, t) ==
  IF log = <<>> THEN 0
  ELSE (IF Head(log).ev.tag[1] = t THEN 1 ELSE 0) + PushesBy(Tail(log), t)

NextTag(t, q) == IF q.log THEN <<t, PushesBy(pushlog, t) + 1>> ELSE <<t, 0>>


\* Thread t runs push_event on the Bridge of the callback it is in.
Push(t, kind, uid, value, message) ==
  LET h == cb[t].h
      b == push_event(bridge[h], kind, uid, value, message, NextTag(t, cb[t].q))
  IN /\ bridge' = [bridge EXCEPT ![h] = b]
     /\ pushlog' = Logged(pushlog, cb[t].q, h, b.events[Len(b.events)])

\* Thread t starts callback fn on handle h and runs its locked section, which
\* leaves the Bridge as b.
Enter(t, h, q, fn, pc, uid, value, message, emit, b) ==
  /\ cb' = [cb EXCEPT ![t] = [fn |-> fn, pc |-> pc, h |-> h, uid |-> uid, value |-> value,
                              message |-> message, emit |-> emit, q |-> q]]
  /\ bridge' = [bridge EXCEPT ![h] = b]
  /\ delivered' = delivered + 1
  /\ cblog' = Delivered(q, h, fn, uid, value)
  /\ UNCHANGED <<g_fallback_runtime_active, handles, observer, pushlog, poplog, ret, calls,
                 pubs, crashed>>

\* Thread t goes on to pc (or ends its callback) after a push.
Advance(t, pc) ==
  /\ cb' = [cb EXCEPT ![t] = IF pc = "idle" THEN IdleThread ELSE [@ EXCEPT !.pc = pc]]
  /\ UNCHANGED <<g_fallback_runtime_active, handles, observer, delivered, poplog, cblog, ret,
                 calls, pubs, crashed>>

onUserJoined(t, h, user_id, q) ==
  /\ CanDeliver(t, h, q)
  /\ LET r == onUserJoined_locked(bridge[h], user_id)
     IN Enter(t, h, q, "onUserJoined", "push_user_joined", parse_uid(user_id), 0, "", r.emit, r.b)

PushUserJoined(t) ==
  /\ ~crashed
  /\ cb[t].pc = "push_user_joined"
  /\ Push(t, HEAVEN_AGORA_EVENT_USER_JOINED, cb[t].uid, 0, "")
  /\ Advance(t, IF cb[t].emit THEN "push_bot_speaking" ELSE "idle")

PushBotSpeaking(t) ==
  /\ ~crashed
  /\ cb[t].pc = "push_bot_speaking"
  /\ Push(t, HEAVEN_AGORA_EVENT_BOT_SPEAKING, 0, 0, "")
  /\ Advance(t, "idle")

onUserLeft(t, h, user_id, reason, q) ==
  /\ CanDeliver(t, h, q)
  /\ LET r == onUserLeft_locked(bridge[h], user_id)
     IN Enter(t, h, q, "onUserLeft", "push_user_left", parse_uid(user_id), reason, "", r.emit, r.b)

PushUserLeft(t) ==
  /\ ~crashed
  /\ cb[t].pc = "push_user_left"
  /\ Push(t, HEAVEN_AGORA_EVENT_USER_LEFT, cb[t].uid, cb[t].value, "")
  /\ Advance(t, IF cb[t].emit THEN "push_bot_silent" ELSE "idle")

\* A faulty onDisconnected that reports the error whatever the reason.
AfterSilent_any_reason(fn, reason) ==
  IF fn = "onDisconnected" THEN "push_error" ELSE "idle"

\* What follows the locked section of onDisconnected, and its BotSilent push.
AfterSilent(fn, reason) ==
  IF fn = "onDisconnected" /\ reason # CONNECTION_CHANGED_LEAVE_CHANNEL
  THEN "push_error" ELSE "idle"

onDisconnected(t, h, reason, q) ==
  /\ CanDeliver(t, h, q)
  /\ LET r == onDisconnected_locked(bridge[h])
         pc == IF r.emit THEN "push_bot_silent" ELSE AfterSilent("onDisconnected", reason)
     IN IF pc = "idle"
        THEN /\ bridge' = [bridge EXCEPT ![h] = r.b]
             /\ delivered' = delivered + 1
             /\ cblog' = Delivered(q, h, "onDisconnected", 0, reason)
             /\ UNCHANGED <<g_fallback_runtime_active, handles, observer, cb, pushlog, poplog,
                            ret, calls, pubs, crashed>>
        ELSE Enter(t, h, q, "onDisconnected", pc, 0, reason, "agora_disconnected", r.emit, r.b)

PushBotSilent(t) ==
  /\ ~crashed
  /\ cb[t].pc = "push_bot_silent"
  /\ Push(t, HEAVEN_AGORA_EVENT_BOT_SILENT, 0, 0, "")
  /\ Advance(t, AfterSilent(cb[t].fn, cb[t].value))

\* onConnectionLost, onTokenPrivilegeWillExpire, onTokenPrivilegeDidExpire: one push.
onNotice(t, h, message, q) ==
  /\ CanDeliver(t, h, q)
  /\ LET b == push_event(bridge[h], HEAVEN_AGORA_EVENT_ERROR, 0, 0, message, NextTag(t, q))
     IN /\ bridge' = [bridge EXCEPT ![h] = b]
        /\ pushlog' = Logged(pushlog, q, h, b.events[Len(b.events)])
  /\ delivered' = delivered + 1
  /\ cblog' = Delivered(q, h, "onNotice", 0, 0)
  /\ UNCHANGED <<g_fallback_runtime_active, handles, observer, cb, poplog, ret, calls, pubs, crashed>>

onConnectionFailure(t, h, reason, q) ==
  /\ CanDeliver(t, h, q)
  /\ Enter(t, h, q, "onConnectionFailure", "push_error", 0, reason, "agora_connection_failure", FALSE,
           set_last_error(bridge[h], "agora connection failure"))

onError(t, h, error, msg, q) ==
  /\ CanDeliver(t, h, q)
  /\ LET text == IF msg = NULL THEN "agora_error" ELSE msg
     IN Enter(t, h, q, "onError", "push_error", 0, error, text, FALSE, set_last_error(bridge[h], text))

PushError(t) ==
  /\ ~crashed
  /\ cb[t].pc = "push_error"
  /\ Push(t, HEAVEN_AGORA_EVENT_ERROR, 0, cb[t].value, cb[t].message)
  /\ Advance(t, "idle")

(***************************************************************************)
(* The environments and inputs the specifications draw from.               *)
(***************************************************************************)
\* Every vendor call may fail; initialize may fail with the not-ready class (+-3).
AnyVendor == [init_rcs |-> {0, -3, 3, -7}, fallback_rcs |-> {0, -3, -7}, rcs |-> {0, -7},
              nulls |-> BOOLEAN]
\* Only initialize may fail; every later vendor call succeeds.
InitOnlyVendor == [init_rcs |-> {0, -3, -7}, fallback_rcs |-> {0, -7}, rcs |-> {0},
                   nulls |-> {FALSE}]

AppIds == {NULL, "", "app"}
Channels == {NULL, "", "room"}
Tokens == {NULL, "tok"}
Uids == {42}
UserIds == {<<"7">>, <<"4", "2">>}
Reasons == {CONNECTION_CHANGED_LEAVE_CHANNEL, CONNECTION_CHANGED_INTERRUPTED}
Notices == {"agora_connection_lost", "agora_token_will_expire", "agora_token_expired"}
ErrorMsgs == {NULL, "boom"}
OutSizes == {0, 512}

DeliverUserJoined(ids, q) == \E t \in q.threads, h \in ids, u \in q.users : onUserJoined(t, h, u, q)
DeliverUserLeft(ids, q) == \E t \in q.threads, h \in ids, u \in q.users : onUserLeft(t, h, u, 0, q)
DeliverDisconnected(ids, q) == \E t \in q.threads, h \in ids, r \in q.reasons : onDisconnected(t, h, r, q)
DeliverNotice(ids, q) == \E t \in q.threads, h \in ids, m \in q.notices : onNotice(t, h, m, q)
DeliverConnectionFailure(ids, q) ==
  \E t \in q.threads, h \in ids, r \in q.reasons : onConnectionFailure(t, h, r, q)
DeliverError(ids, q) == \E t \in q.threads, h \in ids, m \in q.errors : onError(t, h, 110, m, q)

\* The control operations with every input.
Control(ids, env, q) ==
  \/ \E a \in AppIds, n \in BOOLEAN : heaven_agora_create(a, n, ids)
  \/ \E h \in handles \cup {NullHandle} : heaven_agora_destroy(h)
  \/ \E h \in handles \cup {NullHandle}, c \in Channels, k \in Tokens, u \in Uids :
       heaven_agora_join(h, c, k, u, env)
  \/ \E h \in handles \cup {NullHandle} : heaven_agora_leave(h)
  \/ \E h \in handles \cup {NullHandle}, e \in BOOLEAN : heaven_agora_set_mic_enabled(h, e, env)
  \/ \E h \in handles \cup {NullHandle}, e \in BOOLEAN : heaven_agora_set_area_cn(h, e)
  \/ \E h \in handles \cup {NullHandle}, n \in BOOLEAN : heaven_agora_poll_event(h, n, q)
  \/ \E h \in handles \cup {NullHandle}, n \in BOOLEAN, z \in OutSizes : heaven_agora_last_error(h, n, z)

(***************************************************************************)
(* Spec: the control operations on one handle with every input and every   *)
(* vendor failure, and the vendor's participant-joined callback.           *)
(***************************************************************************)
SessionIds == {1}
SessionQ == [threads |-> {1}, cap |-> MaxCallbacks, log |-> FALSE, users |-> {<<"7">>},
             reasons |-> {}, notices |-> {}, errors |-> {}]

Next ==
  \/ Control(SessionIds, AnyVendor, SessionQ)
  \/ DeliverUserJoined(SessionIds, SessionQ)
  \/ \E t \in Threads : PushUserJoined(t)
  \/ \E t \in Threads : PushBotSpeaking(t)

Spec == Init /\ [][Next]_vars

(***************************************************************************)
(* SpecProcess: several handles in one process, sharing the latch.         *)
(***************************************************************************)
NextProcess ==
  \/ \E a \in {NULL, "app"} : heaven_agora_create(a, FALSE, HandleIds)
  \/ \E h \in handles : heaven_agora_destroy(h)
  \/ \E h \in handles : heaven_agora_join(h, "room", "tok", 42, InitOnlyVendor)
  \/ \E h \in handles : heaven_agora_leave(h)

SpecProcess == Init /\ [][NextProcess]_vars

(***************************************************************************)
(* SpecEvents: one joined handle, every callback from concurrent vendor    *)
(* threads, the polling caller, and leave; the histories are kept.         *)
(***************************************************************************)
EventsQ == [threads |-> Threads, cap |-> MaxEventCallbacks, log |-> TRUE, users |-> {<<"7">>},
            reasons |-> {CONNECTION_CHANGED_INTERRUPTED}, notices |-> {"agora_connection_lost"},
            errors |-> {NULL}]

NextEvents ==
  \/ heaven_agora_create("app", FALSE, SessionIds)
  \/ \E h \in handles : heaven_agora_join(h, "room", "tok", 42, InitOnlyVendor)
  \/ \E h \in handles : heaven_agora_leave(h)
  \/ \E h \in handles : heaven_agora_poll_event(h, FALSE, EventsQ)
  \/ DeliverUserJoined(SessionIds, EventsQ)
  \/ DeliverUserLeft(SessionIds, EventsQ)
  \/ DeliverDisconnected(SessionIds, EventsQ)
  \/ DeliverNotice(SessionIds, EventsQ)
  \/ DeliverConnectionFailure(SessionIds, EventsQ)
  \/ DeliverError(SessionIds, EventsQ)
  \/ \E t \in Threads : PushUserJoined(t)
  \/ \E t \in Threads : PushBotSpeaking(t)
  \/ \E t \in Threads : PushUserLeft(t)
  \/ \E t \in Threads : PushBotSilent(t)
  \/ \E t \in Threads : PushError(t)

SpecEvents == Init /\ [][NextEvents]_vars

(***************************************************************************)
(* SpecPresence: the participant and disconnect callbacks delivered one    *)
(* after the other (one vendor thread) to a joined handle.                 *)
(***************************************************************************)
PresenceQ == [threads |-> {1}, cap |-> MaxPresenceCallbacks, log |-> TRUE, users |-> UserIds,
              reasons |-> Reasons, notices |-> {}, errors |-> {}]

NextPresence ==
  \/ heaven_agora_create("app", FALSE, SessionIds)
  \/ \E h \in handles : heaven_agora_join(h, "room", NULL, 42, InitOnlyVendor)
  \/ DeliverUserJoined(SessionIds, PresenceQ)
  \/ DeliverUserLeft(SessionIds, PresenceQ)
  \/ DeliverDisconnected(SessionIds, PresenceQ)
  \/ \E t \in Threads : PushUserJoined(t)
  \/ \E t \in Threads : PushBotSpeaking(t)
  \/ \E t \in Threads : PushUserLeft(t)
  \/ \E t \in Threads : PushBotSilent(t)
  \/ \E t \in Threads : PushError(t)

SpecPresence == Init /\ [][NextPresence]_vars

(***************************************************************************)
(* SpecErrors: the error-class callbacks and the disconnect callback with  *)
(* every reason and message, delivered to a joined handle whose queue the  *)
(* caller polls; the histories are kept.                                   *)
(***************************************************************************)
ErrorsQ == [threads |-> {1}, cap |-> MaxErrorCallbacks, log |-> TRUE, users |-> {<<"7">>},
            reasons |-> Reasons, notices |-> Notices, errors |-> ErrorMsgs]

NextErrors ==
  \/ heaven_agora_create("app", FALSE, SessionIds)
  \/ \E h \in handles : heaven_agora_join(h, "room", "tok", 42, InitOnlyVendor)
  \/ \E h \in handles : heaven_agora_poll_event(h, FALSE, ErrorsQ)
  \/ DeliverUserJoined(SessionIds, ErrorsQ)
  \/ DeliverDisconnected(SessionIds, ErrorsQ)
  \/ DeliverNotice(SessionIds, ErrorsQ)
  \/ DeliverConnectionFailure(SessionIds, ErrorsQ)
  \/ DeliverError(SessionIds, ErrorsQ)
  \/ \E t \in Threads : PushUserJoined(t)
  \/ \E t \in Threads : PushBotSpeaking(t)
  \/ \E t \in Threads : PushBotSilent(t)
  \/ \E t \in Threads : PushError(t)

SpecErrors == Init /\ [][NextErrors]_vars

(***************************************************************************)
(* Properties.  A step of a C ABI call leaves the callback threads alone   *)
(* and sets ret to the call; a callback step changes cb or delivered.      *)
(***************************************************************************)
HostStep == cb' = cb /\ delivered' = delivered

StepOf(op, h) == HostStep /\ ret'.op = op /\ ret'.h = h

HasCall(cs, fn) == \E i \in 1..Len(cs) : cs[i].fn = fn

\* The events of the history entries of handle h.
EventsOf(log, h) ==
  LET l == SelectSeq2(log, h) IN [i \in 1..Len(l) |-> l[i].ev]

RECURSIVE ByProducer(_, _)
\* The events of evs that vendor thread t pushed, in the order of evs.
ByProducer(evs, t) ==
  IF evs = <<>> THEN <<>>
  ELSE IF Head(evs).tag[1] = t THEN <<Head(evs)>> \o ByProducer(Tail(evs), t)
  ELSE ByProducer(Tail(evs), t)

\* C1: whatever the interleaving of the pushes of the concurrent callback
\* threads with the pops of the polling caller, for every producer the events
\* popped so far followed by the events still queued are exactly the events
\* that producer pushed, in the order it pushed them: pops return each
\* producer's events in push order, and once the queue is drained every pushed
\* event was returned by exactly one pop (none lost, none duplicated).
C1_PerProducerFifo ==
  \A h \in HandleIds, t \in Threads :
    ByProducer(EventsOf(poplog, h) \o bridge[h].events, t) = ByProducer(EventsOf(pushlog, h), t)

\* Two threads pushed two events each, interleaved, and four pops drained the queue.
C1_Witness ==
  \E h \in handles :
    /\ bridge[h].events = <<>>
    /\ Len(poplog) = 4
    /\ \A t \in {1, 2} : Len(ByProducer(EventsOf(pushlog, h), t)) = 2
    /\ poplog[1].ev.tag[1] # poplog[2].ev.tag[1]
    /\ poplog[2].ev.tag[1] # poplog[3].ev.tag[1]

\* C2: a poll_event step on a handle with a non-null output slot returns 1
\* exactly when the queue is empty and 0 otherwise; returning 0 it hands out
\* the head event and removes exactly that event; returning 1 it leaves the
\* queue and the whole session state as they were; and it never waits for a
\* producer: on every live handle the call can complete in every state.
C2_PollNeverWaits ==
  [][\A h \in HandleIds :
       /\ (h \in handles /\ ~crashed) => ENABLED heaven_agora_poll_event(h, FALSE, EventsQ)
       /\ (StepOf("poll_event", h) /\ ret'.args = <<"0">>) =>
            /\ ret'.rc \in {0, 1}
            /\ (ret'.rc = 1) <=> (bridge[h].events = <<>>)
            /\ ret'.rc = 0 =>
                 /\ ret'.ev = Head(bridge[h].events)
                 /\ bridge'[h] = [bridge[h] EXCEPT !.events = Tail(@)]
            /\ ret'.rc = 1 =>
                 /\ bridge' = bridge
                 /\ observer' = observer
                 /\ handles' = handles
                 /\ g_fallback_runtime_active' = g_fallback_runtime_active]_vars

\* A poll found the queue empty after earlier polls had drained two events.
C2_Witness ==
  \E h \in handles :
    /\ ret.op = "poll_event" /\ ret.h = h /\ ret.rc = 1
    /\ bridge[h].events = <<>>
    /\ Len(poplog) >= 2
    /\ bridge[h].connection

\* C3: between two full shutdowns of a handle at most one publishAudio call
\* succeeds, and once one has succeeded a further join on the handle, whether
\* it succeeds or fails at connect, makes no publishAudio call at all.
C3_PublishOnce ==
  [][\A h \in HandleIds :
       /\ pubs'[h] <= 1
       /\ (StepOf("join", h) /\ pubs[h] = 1) => ~HasCall(calls', "publishAudio")]_vars

\* A second join on a published handle succeeded with connect as its only vendor call.
C3_Witness ==
  \E h \in handles :
    /\ ret.op = "join" /\ ret.h = h /\ ret.rc = 0
    /\ pubs[h] = 1 /\ bridge[h].audio_published /\ ~bridge[h].teardown_unsafe
    /\ Len(calls) = 1 /\ calls[1].fn = "connect"

\* The last C ABI call ran service->initialize twice: not-ready, then success.
RetrySucceeded(cs) ==
  \E i \in 1..(Len(cs) - 1) :
    /\ cs[i].fn = "initialize" /\ Abs(cs[i].rc) = 3
    /\ cs[i + 1].fn = "initialize" /\ cs[i + 1].rc = 0

\* The statement of C4 as written: once the latch is set every create call
\* returns -77 and allocates no handle.
C4_EveryCreateReturnsLatchError ==
  [][/\ g_fallback_runtime_active => g_fallback_runtime_active'
     /\ (HostStep /\ RetrySucceeded(calls')) => g_fallback_runtime_active'
     /\ (g_fallback_runtime_active /\ HostStep /\ ret'.op = "create") =>
          (ret'.rc = -77 /\ handles' = handles)]_vars

\* C4: a call whose initialization succeeds through the degraded retry sets
\* the latch; the latch stays set in every later state whatever leave and
\* destroy calls follow; and every later create call allocates no handle and
\* returns -77 when both its arguments are non-null, -1 (the argument check
\* comes first) when app_id or the output slot is null.
C4_LatchStaysAndBlocksCreate ==
  [][/\ g_fallback_runtime_active => g_fallback_runtime_active'
     /\ (HostStep /\ RetrySucceeded(calls')) => g_fallback_runtime_active'
     /\ (g_fallback_runtime_active /\ HostStep /\ ret'.op = "create") =>
          /\ handles' = handles
          /\ bridge' = bridge
          /\ ret'.h = NullHandle
          /\ ret'.rc = (IF ret'.args[1] = NULL \/ ret'.args[2] = "1" THEN -1 ELSE -77)]_vars

\* The latch is set, the degraded handle was destroyed, and a create with
\* valid arguments was refused with -77.
C4_Witness ==
  /\ g_fallback_runtime_active
  /\ handles = {}
  /\ ret.op = "create" /\ ret.args = <<"app", "0">> /\ ret.rc = -77

\* C5 as written: in every state in which the latch is set at most one
\* created-and-not-destroyed handle exists.
C5_AtMostOneLiveHandle ==
  g_fallback_runtime_active => Cardinality(handles) <= 1

\* The callbacks that change the participant set.
IsPresence(kind) ==
  kind \in {HEAVEN_AGORA_EVENT_BOT_SPEAKING, HEAVEN_AGORA_EVENT_BOT_SILENT,
            HEAVEN_AGORA_EVENT_USER_JOINED, HEAVEN_AGORA_EVENT_USER_LEFT}

RECURSIVE PresenceEvents(_)
\* The participant and speaking events of evs as <<kind, uid>>.
PresenceEvents(evs) ==
  IF evs = <<>> THEN <<>>
  ELSE (IF IsPresence(Head(evs).kind) THEN <<<<Head(evs).kind, Head(evs).uid>>>> ELSE <<>>)
         \o PresenceEvents(Tail(evs))

RECURSIVE ExpectedPresence(_, _)
\* What C6 says the callbacks cbs enqueue, starting from participant set S.
ExpectedPresence(cbs, S) ==
  IF cbs = <<>> THEN <<>>
  ELSE LET c == Head(cbs)
       IN IF c.fn = "onUserJoined"
          THEN <<<<HEAVEN_AGORA_EVENT_USER_JOINED, c.uid>>>>
                 \o (IF S = {} THEN <<<<HEAVEN_AGORA_EVENT_BOT_SPEAKING, 0>>>> ELSE <<>>)
                 \o ExpectedPresence(Tail(cbs), S \cup {c.uid})
          ELSE IF c.fn = "onUserLeft"
          THEN <<<<HEAVEN_AGORA_EVENT_USER_LEFT, c.uid>>>>
                 \o (IF S # {} /\ S \ {c.uid} = {}
                     THEN <<<<HEAVEN_AGORA_EVENT_BOT_SILENT, 0>>>> ELSE <<>>)
                 \o ExpectedPresence(Tail(cbs), S \ {c.uid})
          ELSE IF c.fn = "onDisconnected"
          THEN (IF S # {} THEN <<<<HEAVEN_AGORA_EVENT_BOT_SILENT, 0>>>> ELSE <<>>)
                 \o ExpectedPresence(Tail(cbs), {})
          ELSE ExpectedPresence(Tail(cbs), S)

\* C6: when callbacks are delivered one after the other to a handle whose
\* participant set starts empty, then after each callback has returned the
\* participant and speaking events enqueued so far are: one UserJoined per
\* joined callback, followed by BotSpeaking exactly when that callback took
\* the set from empty to non-empty; one UserLeft per left callback, followed
\* by BotSilent exactly when that callback took the set from non-empty to
\* empty; one BotSilent per disconnect callback that emptied a non-empty set;
\* and nothing else.
C6_SpeakingFollowsPresence ==
  \A h \in HandleIds :
    (\A t \in Threads : cb[t].pc = "idle") =>
      PresenceEvents(EventsOf(pushlog, h)) = ExpectedPresence(SelectSeq2(cblog, h), {})

\* join(A), join(B), leave(A), leave(B) were delivered: one BotSpeaking, one BotSilent.
C6_Witness ==
  \E h \in handles :
    /\ \A t \in Threads : cb[t].pc = "idle"
    /\ [i \in 1..Len(cblog) |-> <<cblog[i].fn, cblog[i].uid>>]
         = << <<"onUserJoined", 7>>, <<"onUserJoined", 42>>, <<"onUserLeft", 7>>, <<"onUserLeft", 42>> >>
    /\ PresenceEvents(bridge[h].events)
         = << <<HEAVEN_AGORA_EVENT_USER_JOINED, 7>>, <<HEAVEN_AGORA_EVENT_BOT_SPEAKING, 0>>,
              <<HEAVEN_AGORA_EVENT_USER_JOINED, 42>>, <<HEAVEN_AGORA_EVENT_USER_LEFT, 7>>,
              <<HEAVEN_AGORA_EVENT_USER_LEFT, 42>>, <<HEAVEN_AGORA_EVENT_BOT_SILENT, 0>> >>

PublicOps == {"join", "leave", "set_mic_enabled", "set_area_cn", "poll_event"}

\* C7 as written: after every public operation on a handle, last_error is
\* empty exactly when the operation returned 0.
C7_ErrorTextIffFailure ==
  [][\A h \in HandleIds :
       (HostStep /\ ret'.h = h /\ ret'.op \in PublicOps) =>
         ((ret'.rc = 0) <=> (get_last_error(bridge'[h]) = ""))]_vars

\* C7: after join (with a non-null channel), leave, set_region_preference and
\* set_mic_enabled outside degraded mode, last_error, read before any callback
\* runs, is empty if the call returned 0 and non-empty if it returned a
\* non-zero status.  set_mic_enabled in degraded mode (audio processor off)
\* returns 0 and leaves a non-empty note.  poll_event, with any status, and a
\* call the C wrapper rejects (null handle, null channel) leave last_error as
\* it was; the rejected call returns -1.
C7_ErrorTextAfterBridgeCalls ==
  [][/\ \A h \in HandleIds :
          (HostStep /\ ret'.h = h /\ ret'.op \in PublicOps) =>
            LET text == get_last_error(bridge'[h])
            IN IF ret'.op = "poll_event"
               THEN text = get_last_error(bridge[h])
               ELSE IF ret'.op = "join" /\ ret'.args[1] = NULL
               THEN ret'.rc = -1 /\ text = get_last_error(bridge[h])
               ELSE IF ret'.op = "set_mic_enabled" /\ ~bridge[h].audio_processor_enabled
               THEN ret'.rc = 0 /\ text # ""
               ELSE (ret'.rc = 0) <=> (text = "")
     /\ (HostStep /\ ret'.h = NullHandle /\ ret'.op \in PublicOps) =>
          (ret'.rc = -1 /\ bridge' = bridge)]_vars

\* A join on an initialized handle failed at connect and left its error text.
C7_Witness ==
  \E h \in handles :
    /\ ret.op = "join" /\ ret.h = h /\ ret.rc = -7
    /\ Len(calls) = 1 /\ calls[1].fn = "connect"
    /\ get_last_error(bridge[h]) = make_error_message("connect", -7)

C9_DegradedLeaveResets ==
  [][\A h \in HandleIds :
       (StepOf("leave", h) /\ bridge[h].teardown_unsafe /\ bridge[h].connection) =>
         /\ ret'.rc = 0
         /\ calls' = <<>>
         /\ bridge'[h].remote_users = {}
         /\ ~bridge'[h].bot_speaking
         /\ bridge'[h].active_channel = ""
         /\ bridge'[h].active_token = ""
         /\ bridge'[h].active_uid = ""]_vars

\* C10: a leave that returns 0 on a handle that is not teardown-unsafe leaves
\* it without engine, connection, local user and audio track, with audio not
\* published and the participant set, speaking flag, channel, token and uid
\* cleared; the join that follows it on the handle creates and initializes
\* the vendor service again, and when that join succeeds in full-feature mode
\* it has connected and published the microphone track exactly once.
C10_FullLeaveThenRejoin ==
  [][\A h \in HandleIds :
       /\ (StepOf("leave", h) /\ ret'.rc = 0 /\ ~bridge[h].teardown_unsafe) =>
            /\ ~bridge'[h].service /\ ~bridge'[h].connection
            /\ ~bridge'[h].local_user /\ ~bridge'[h].local_audio_track
            /\ ~bridge'[h].audio_published /\ pubs'[h] = 0
            /\ ~observer'[h]
            /\ bridge'[h].remote_users = {} /\ ~bridge'[h].bot_speaking
            /\ bridge'[h].active_channel = "" /\ bridge'[h].active_token = ""
            /\ bridge'[h].active_uid = ""
       /\ (StepOf("join", h) /\ ret'.args[1] \notin {NULL, ""}
             /\ ret.op = "leave" /\ ret.h = h /\ ret.rc = 0 /\ ~bridge[h].teardown_unsafe) =>
            /\ HasCall(calls', "createAgoraService")
            /\ (calls'[1].rc = 0 => HasCall(calls', "initialize"))
            /\ (ret'.rc = 0 /\ ~bridge'[h].teardown_unsafe) =>
                 /\ CountCalls(calls', "initialize") = 1
                 /\ CountCalls(calls', "connect") = 1
                 /\ CountCalls(calls', "publishAudio") = 1
                 /\ pubs'[h] = 1 /\ bridge'[h].audio_published]_vars

\* A handle with a participant was left in full and joined again: the second
\* join initialized the service and published once.
C10_Witness ==
  \E h \in handles :
    /\ ret.op = "join" /\ ret.h = h /\ ret.rc = 0
    /\ ~bridge[h].teardown_unsafe
    /\ HasCall(calls, "initialize") /\ CountCalls(calls, "publishAudio") = 1
    /\ pubs[h] = 1
    /\ bridge[h].events # <<>>
    /\ bridge[h].remote_users = {}
    /\ \A t \in Threads : cb[t].pc = "idle"

\* The vendor calls whose function is one of fns.
VendorCalls(cs, fns) == SelectSeq(cs, LAMBDA c : c.fn \in fns)

TeardownFns == {"unregisterObserver", "unpublishAudio", "disconnect", "release"}

\* C11: destroy on a teardown-unsafe handle makes no vendor call and frees
\* only the handle: the Bridge and what it holds stay as they were (leaked).
\* destroy on any other handle unregisters the observer and disconnects iff
\* it holds a connection, unpublishes iff audio is published, releases the
\* track, the connection and the service it holds, and then frees the Bridge.
C11_DestroyLeaksOrShutsDown ==
  [][\A h \in HandleIds :
       StepOf("destroy", h) =>
         /\ h \notin handles'
         /\ IF bridge[h].teardown_unsafe
            THEN calls' = <<>> /\ bridge'[h] = bridge[h] /\ observer'[h] = observer[h]
            ELSE /\ HasCall(calls', "unregisterObserver") <=> bridge[h].connection
                 /\ HasCall(calls', "disconnect") <=> bridge[h].connection
                 /\ HasCall(calls', "unpublishAudio") <=> bridge[h].audio_published
                 /\ Len(VendorCalls(calls', {"release"}))
                      = (IF bridge[h].local_audio_track THEN 1 ELSE 0)
                        + (IF bridge[h].connection THEN 1 ELSE 0)
                        + (IF bridge[h].service THEN 1 ELSE 0)
                 /\ bridge'[h] = NoBridge
                 /\ ~observer'[h]]_vars

\* A degraded handle with a connection was destroyed: no vendor call, Bridge leaked.
C11_Witness ==
  \E h \in HandleIds :
    /\ ret.op = "destroy" /\ ret.h = h /\ h \notin handles
    /\ bridge[h].teardown_unsafe /\ bridge[h].connection /\ bridge[h].service
    /\ calls = <<>>

\* C12: a handle that is teardown-unsafe stays so until it is destroyed; while
\* it is, it has no local audio track, audio is not published and the audio
\* processor is off; a join on it makes no publishAudio call, and
\* set_mic_enabled on it returns 0 without any vendor call.
C12_DegradedForLife ==
  [][\A h \in HandleIds :
       bridge[h].teardown_unsafe =>
         /\ (h \in handles /\ h \in handles') => bridge'[h].teardown_unsafe
         /\ bridge'[h].teardown_unsafe =>
              /\ ~bridge'[h].local_audio_track
              /\ ~bridge'[h].audio_published
              /\ ~bridge'[h].audio_processor_enabled
              /\ pubs'[h] = 0
         /\ StepOf("join", h) => ~HasCall(calls', "publishAudio")
         /\ StepOf("set_mic_enabled", h) => (ret'.rc = 0 /\ calls' = <<>>)]_vars

\* set_mic_enabled returned 0 without a vendor call on a degraded, joined handle.
C12_Witness ==
  \E h \in handles :
    /\ ret.op = "set_mic_enabled" /\ ret.h = h /\ ret.rc = 0 /\ calls = <<>>
    /\ bridge[h].teardown_unsafe /\ bridge[h].active_channel = "room"
    /\ g_fallback_runtime_active

\* The step on handle h is one of the four adapter-level rejections of C13.
RejectedByAdapter(h) ==
  \/ StepOf("join", h) /\ ret'.args[1] = ""
  \/ StepOf("leave", h) /\ ~bridge[h].connection
  \/ StepOf("set_area_cn", h) /\ bridge[h].service
  \/ StepOf("set_mic_enabled", h) /\ bridge[h].audio_processor_enabled
       /\ ~bridge[h].local_audio_track

\* The status of those rejections: argument error, state errors.
RejectionStatus(op) ==
  IF op = "join" THEN -1 ELSE IF op = "set_area_cn" THEN -3 ELSE -2

\* C13 as written: a rejected operation makes no vendor call and changes
\* nothing of the session state but the last-error text.
C13_RejectionChangesOnlyErrorText ==
  [][\A h \in HandleIds :
       RejectedByAdapter(h) =>
         /\ calls' = <<>>
         /\ ret'.rc = RejectionStatus(ret'.op)
         /\ bridge'[h] = [bridge[h] EXCEPT !.last_error = bridge'[h].last_error]
         /\ observer' = observer]_vars

\* C13: join with an empty channel, leave with no connection,
\* set_region_preference with the engine created and set_mic_enabled with no
\* local audio track return their error (-1, -2, -3, -2), make no vendor call,
\* set a non-empty last-error text and leave engine/connection presence,
\* region preference, channel/token/uid, publish status, participant set and
\* event queue unchanged; the microphone intent is unchanged too, except that
\* the rejected set_mic_enabled has already stored its argument as the intent.
C13_RejectionKeepsSessionButMicIntent ==
  [][\A h \in HandleIds :
       RejectedByAdapter(h) =>
         /\ calls' = <<>>
         /\ ret'.rc = RejectionStatus(ret'.op)
         /\ get_last_error(bridge'[h]) # ""
         /\ bridge'[h] = [bridge[h] EXCEPT
                            !.last_error = bridge'[h].last_error,
                            !.mic_enabled = IF ret'.op = "set_mic_enabled"
                                            THEN ret'.args[1] = "1" ELSE @]
         /\ observer' = observer]_vars

\* A join with an empty channel was rejected on a joined handle, which still
\* holds its channel and connection.
C13_Witness ==
  \E h \in handles :
    /\ ret.op = "join" /\ ret.h = h /\ ret.args[1] = "" /\ ret.rc = -1
    /\ bridge[h].active_channel = "room" /\ bridge[h].connection
    /\ calls = <<>>

\* The join step on handle h ended inside initialize_if_needed: it returned
\* an error and never reached connection->connect.
InitializeFailed(h) ==
  /\ StepOf("join", h)
  /\ ret'.args[1] \notin {NULL, ""}
  /\ ret'.rc # 0
  /\ ~HasCall(calls', "connect")

\* C14 as written: when initialize_if_needed returns a non-zero status the
\* handle holds no engine, connection, local user or audio track afterwards.
C14_FailedInitializeHoldsNothing ==
  [][\A h \in HandleIds :
       InitializeFailed(h) =>
         /\ ~bridge'[h].service
         /\ ~bridge'[h].connection
         /\ ~bridge'[h].local_user
         /\ ~bridge'[h].local_audio_track]_vars

\* The configuration text of a service->initialize call for handle state b.
ConfigText(b, audio_processor) ==
  "audio_processor=" \o audio_processor \o ",audio_device=1,area="
    \o (IF b.area_cn_only THEN "CN" ELSE "GLOB")

\* C15: a join that runs initialization calls service->initialize once or
\* twice, first with the audio processor on; the second call, with the audio
\* processor off and the audio device on, is made exactly when the first
\* returned +-3.  A first failure of another class is returned as it is, sets
\* neither the latch nor teardown_unsafe.  When both calls fail the service is
\* released, the latch and teardown_unsafe are not set and the retry's status
\* is returned.
C15_RetryOnlyWhenNotReady ==
  [][\A h \in HandleIds :
       (StepOf("join", h) /\ HasCall(calls', "initialize")) =>
         LET inits == VendorCalls(calls', {"initialize"})
             failed == inits[Len(inits)].rc # 0
         IN /\ Len(inits) \in {1, 2}
            /\ inits[1].arg = ConfigText(bridge[h], "1")
            /\ (Len(inits) = 2) <=> (Abs(inits[1].rc) = 3)
            /\ Len(inits) = 2 => inits[2].arg = ConfigText(bridge[h], "0")
            /\ failed =>
                 /\ ret'.rc = inits[Len(inits)].rc
                 /\ g_fallback_runtime_active' = g_fallback_runtime_active
                 /\ ~bridge'[h].teardown_unsafe
                 /\ ~bridge'[h].service
                 /\ calls'[Len(calls')] = Call("release", "service", 0)
            /\ (Len(inits) = 1) =>
                 /\ g_fallback_runtime_active' = g_fallback_runtime_active
                 /\ ~bridge'[h].teardown_unsafe]_vars

\* The first initialize returned 3, the retry -7: the join returned -7 with
\* the service released and the latch clear.
C15_Witness ==
  \E h \in handles :
    /\ ret.op = "join" /\ ret.h = h /\ ret.rc = -7
    /\ Len(VendorCalls(calls, {"initialize"})) = 2
    /\ VendorCalls(calls, {"initialize"})[1].rc = 3
    /\ ~bridge[h].service /\ ~g_fallback_runtime_active

\* The place of a teardown call in the order of Bridge::shutdown.
TeardownRank(c) ==
  IF c.fn = "unregisterObserver" THEN 1
  ELSE IF c.fn = "unpublishAudio" THEN 2
  ELSE IF c.fn = "disconnect" THEN 3
  ELSE IF c.arg = "track" THEN 4
  ELSE IF c.arg = "connection" THEN 5
  ELSE 6

\* The teardown calls C16 prescribes for a handle in state b.
ExpectedTeardown(b) ==
  (IF b.connection THEN <<Call("unregisterObserver", "", 0)>> ELSE <<>>)
    \o (IF b.audio_published THEN <<Call("unpublishAudio", "", 0)>> ELSE <<>>)
    \o (IF b.connection THEN <<Call("disconnect", "", 0)>> ELSE <<>>)
    \o (IF b.local_audio_track THEN <<Call("release", "track", 0)>> ELSE <<>>)
    \o (IF b.connection THEN <<Call("release", "connection", 0)>> ELSE <<>>)
    \o (IF b.service THEN <<Call("release", "service", 0)>> ELSE <<>>)

\* C16: the teardown calls of every C ABI call come in the order
\* unregisterObserver, unpublishAudio, disconnect, release of the track, of
\* the connection, of the service, each at most once; a successful leave and
\* a destroy on a handle that is not teardown-unsafe issue exactly that
\* sequence for what the handle holds, unpublishAudio only if audio was
\* published; a call on a teardown-unsafe handle issues none of them, and a
\* failure exit that runs shutdown on it resets the in-memory session fields.
C16_TeardownOrder ==
  [][\A h \in HandleIds :
       (HostStep /\ ret'.h = h) =>
         LET down == VendorCalls(calls', TeardownFns)
         IN /\ \A i, j \in 1..Len(down) : i < j => TeardownRank(down[i]) < TeardownRank(down[j])
            /\ ((ret'.op = "leave" /\ ret'.rc = 0 /\ ~bridge[h].teardown_unsafe)
                  \/ (ret'.op = "destroy" /\ ~bridge[h].teardown_unsafe)) =>
                 calls' = ExpectedTeardown(bridge[h])
            /\ (bridge[h].teardown_unsafe \/ bridge'[h].teardown_unsafe) => down = <<>>
            /\ (InitializeFailed(h) /\ bridge'[h].teardown_unsafe) =>
                 /\ bridge'[h].remote_users = {} /\ ~bridge'[h].bot_speaking
                 /\ bridge'[h].active_channel = "" /\ bridge'[h].active_token = ""
                 /\ bridge'[h].active_uid = ""]_vars

\* A leave on a published full-feature handle issued all six teardown calls.
C16_Witness ==
  \E h \in handles :
    /\ ret.op = "leave" /\ ret.h = h /\ ret.rc = 0
    /\ Len(calls) = 6
    /\ calls[1].fn = "unregisterObserver" /\ calls[2].fn = "unpublishAudio"
    /\ calls[3].fn = "disconnect" /\ calls[6] = Call("release", "service", 0)

\* The Bridge fields a C ABI operation assigns inside a std::lock_guard on mu:
\* last_error in set_last_error and clear_last_error, the five fields both
\* branches of shutdown reset, and the deque in pop_event.
LockedWrites(op) ==
  IF op \in {"join", "leave"}
  THEN {"last_error", "remote_users", "bot_speaking", "active_channel", "active_token",
        "active_uid"}
  ELSE IF op \in {"set_mic_enabled", "set_area_cn"} THEN {"last_error"}
  ELSE IF op = "poll_event" THEN {"events"}
  ELSE {}

\* The session state and event queue that C17 says the mutex guards.
GuardedFields ==
  {"area_cn_only", "mic_enabled", "active_channel", "active_token", "active_uid",
   "audio_published", "remote_users", "bot_speaking", "last_error",
   "audio_processor_enabled", "teardown_unsafe", "events"}

ChangedFields(b, c) == {f \in DOMAIN b : b[f] # c[f]}

\* C17 as written: every write of a control operation to the session state
\* or the event queue is made with the handle's mutex held, so an operation
\* changes no guarded field that it does not assign inside a locked section.
C17_WritesUnderMutex ==
  [][\A h \in HandleIds :
       (HostStep /\ ret'.h = h /\ ret'.op \notin {"create", "destroy"}) =>
         (ChangedFields(bridge[h], bridge'[h]) \cap GuardedFields) \subseteq LockedWrites(ret'.op)]_vars

RECURSIVE SpeakingKinds(_)
\* The kinds of the BotSpeaking and BotSilent events of evs, in order.
SpeakingKinds(evs) ==
  IF evs = <<>> THEN <<>>
  ELSE (IF Head(evs).kind \in {HEAVEN_AGORA_EVENT_BOT_SPEAKING, HEAVEN_AGORA_EVENT_BOT_SILENT}
        THEN <<Head(evs).kind>> ELSE <<>>) \o SpeakingKinds(Tail(evs))

\* C18 as written: the speaking-class events enqueued for a handle alternate
\* BotSpeaking, BotSilent, BotSpeaking, ..., and when no callback is running
\* the last of them matches the speaking flag.
C18_SpeakingEventsAlternate ==
  \A h \in HandleIds :
    LET ks == SpeakingKinds(EventsOf(pushlog, h))
    IN /\ \A i \in 1..Len(ks) :
            ks[i] = (IF i % 2 = 1 THEN HEAVEN_AGORA_EVENT_BOT_SPEAKING
                     ELSE HEAVEN_AGORA_EVENT_BOT_SILENT)
       /\ (\A t \in Threads : cb[t].pc = "idle") =>
            (bridge[h].bot_speaking <=> (Len(ks) % 2 = 1))

\* C19: in every state (the mutex is free between steps) the speaking flag of
\* a handle is true exactly when its set of remote participants is non-empty.
C19_SpeakingIffParticipants ==
  \A h \in HandleIds : bridge[h].bot_speaking <=> (bridge[h].remote_users # {})

\* The same participant joined twice: the set is non-empty and the flag is true.
C19_Witness ==
  \E h \in handles :
    /\ Len(cblog) = 2
    /\ \A i \in 1..2 : cblog[i].fn = "onUserJoined" /\ cblog[i].uid = 7
    /\ \A t \in Threads : cb[t].pc = "idle"
    /\ bridge[h].bot_speaking /\ bridge[h].remote_users # {}

\* C20: set_mic_enabled(e) stores e as the microphone intent whatever it
\* returns, and nothing else changes the intent of a live handle; on a handle
\* with no engine it returns -2; with a track present it forwards exactly e to
\* the track and returns the track's status; and an initialization that
\* creates the audio track enables it with the intent stored before the step.
C20_MicIntentStoredAndApplied ==
  [][\A h \in HandleIds :
       /\ StepOf("set_mic_enabled", h) =>
            /\ bridge'[h].mic_enabled = (ret'.args[1] = "1")
            /\ ~bridge[h].service => (ret'.rc = -2 /\ calls' = <<>>)
            /\ bridge[h].local_audio_track =>
                 calls' = <<Call("setEnabled", ret'.args[1], ret'.rc)>>
       /\ (h \in handles /\ h \in handles' /\ bridge'[h].mic_enabled # bridge[h].mic_enabled) =>
            StepOf("set_mic_enabled", h)
       /\ StepOf("join", h) =>
            \A i \in 1..Len(calls') :
              (calls'[i].fn = "createLocalAudioTrack" /\ calls'[i].rc = 0) =>
                /\ i < Len(calls')
                /\ calls'[i + 1].fn = "setEnabled"
                /\ calls'[i + 1].arg = BoolText(bridge[h].mic_enabled)]_vars

\* A join initialized the engine and enabled the new track with "0": the
\* intent an earlier set_mic_enabled(false) had stored.
C20_Witness ==
  \E h \in handles :
    /\ ret.op = "join" /\ ret.h = h /\ ret.rc = 0
    /\ bridge[h].local_audio_track /\ ~bridge[h].mic_enabled
    /\ \E i \in 1..Len(calls) :
         /\ calls[i].fn = "createLocalAudioTrack" /\ calls[i].rc = 0
         /\ calls[i + 1] = Call("setEnabled", "0", 0)

\* The callbacks that only report: connection lost and the two token
\* callbacks (onNotice), connection failure and the generic error.
ErrorClassFns == {"onNotice", "onConnectionFailure", "onError"}

\* History entry e is a callback whose code pushes an Error event.
OwesError(e) ==
  \/ e.fn \in ErrorClassFns
  \/ e.fn = "onDisconnected" /\ e.value # CONNECTION_CHANGED_LEAVE_CHANNEL

\* Thread t is inside a callback on handle h and has its Error event still to push.
ErrorPending(t, h) ==
  /\ cb[t].h = h
  /\ \/ cb[t].pc = "push_error"
     \/ cb[t].pc = "push_bot_silent" /\ cb[t].fn = "onDisconnected"
          /\ cb[t].value # CONNECTION_CHANGED_LEAVE_CHANNEL

\* Thread t of handle h delivered a callback in this step.
Begins(t, h) ==
  /\ delivered' = delivered + 1
  /\ Len(cblog') = Len(cblog) + 1 /\ cblog'[Len(cblog')].h = h
  /\ cb'[t] # cb[t] \/ \A u \in Threads : cb'[u] = cb[u]

\* The step appends exactly one event to the tail of the queue of handle h.
AppendsOne(h) ==
  /\ Len(bridge'[h].events) = Len(bridge[h].events) + 1
  /\ SubSeq(bridge'[h].events, 1, Len(bridge[h].events)) = bridge[h].events

LastEvent(h) == bridge'[h].events[Len(bridge'[h].events)]

\* For every handle the Error events pushed so far,
\* plus those the running callbacks have still to push, are as many as the
\* delivered error-class callbacks and disconnects whose reason is not
\* leave-channel; and a disconnect that emitted BotSilent pushes its Error
\* only after that BotSilent.
ErrorsMatchCallbacks ==
  \A h \in HandleIds :
    /\ Cardinality({i \in 1..Len(pushlog) :
                      pushlog[i].h = h /\ pushlog[i].ev.kind = HEAVEN_AGORA_EVENT_ERROR})
         + Cardinality({t \in Threads : ErrorPending(t, h)})
       = Cardinality({i \in 1..Len(cblog) : cblog[i].h = h /\ OwesError(cblog[i])})
    /\ \A t \in Threads :
         (cb[t].h = h /\ cb[t].fn = "onDisconnected" /\ cb[t].pc = "push_error" /\ cb[t].emit) =>
           LET mine == ByProducer(EventsOf(pushlog, h), t)
           IN mine # <<>> /\ mine[Len(mine)].kind = HEAVEN_AGORA_EVENT_BOT_SILENT

\* A step of an error-class callback changes nothing
\* of the Bridge but the queue and the error text; the step that pushes the
\* Error event appends exactly that event to the tail of the queue, with the
\* value and message of the callback; a disconnect with reason leave-channel
\* pushes no Error event.
ErrorCallbacksFrame ==
   \A h \in HandleIds :
       /\ \A t \in Threads :
            (Begins(t, h) /\ cblog'[Len(cblog')].fn \in ErrorClassFns) =>
              /\ ChangedFields(bridge[h], bridge'[h]) \subseteq {"events", "last_error"}
              /\ IF cblog'[Len(cblog')].fn = "onNotice"
                 THEN /\ AppendsOne(h)
                      /\ LastEvent(h).kind = HEAVEN_AGORA_EVENT_ERROR
                      /\ LastEvent(h).uid = 0 /\ LastEvent(h).value = 0
                      /\ LastEvent(h).message \in Notices
                      /\ cb'[t].pc = "idle"
                 ELSE bridge'[h].events = bridge[h].events /\ cb'[t].pc = "push_error"
       /\ \A t \in Threads :
            (cb[t].h = h /\ cb[t].pc = "push_error" /\ cb'[t] # cb[t]) =>
              /\ ChangedFields(bridge[h], bridge'[h]) = {"events"}
              /\ AppendsOne(h)
              /\ LastEvent(h).kind = HEAVEN_AGORA_EVENT_ERROR
              /\ LastEvent(h).uid = 0 /\ LastEvent(h).value = cb[t].value
              /\ LastEvent(h).message =
                   (IF cb[t].fn = "onDisconnected" THEN "agora_disconnected"
                    ELSE IF cb[t].fn = "onConnectionFailure" THEN "agora_connection_failure"
                    ELSE cb[t].message)
              /\ cb'[t].pc = "idle"
       /\ \A t \in Threads :
            (Begins(t, h) /\ cblog'[Len(cblog')].fn = "onDisconnected"
               /\ cblog'[Len(cblog')].value = CONNECTION_CHANGED_LEAVE_CHANNEL) =>
              cb'[t].pc \in {"idle", "push_bot_silent"}
       /\ \A t \in Threads :
            (cb[t].h = h /\ cb[t].pc = "push_bot_silent" /\ cb[t].fn = "onDisconnected"
               /\ cb'[t] # cb[t]) =>
              cb'[t].pc = (IF cb[t].value = CONNECTION_CHANGED_LEAVE_CHANNEL
                           THEN "idle" ELSE "push_error")

\* C21: each connection-lost, token-will-expire, token-expired,
\* connection-failure and generic-error callback appends exactly one Error
\* event to the tail of the queue and leaves the participants, the speaking
\* flag, channel/token/uid and the engine state as they were; a disconnect
\* callback appends an Error event exactly when its reason is not
\* leave-channel, and after the BotSilent event if it emits one.
C21_ErrorCallbacks == []ErrorsMatchCallbacks /\ [][ErrorCallbacksFrame]_vars

\* A participant joined, an interrupted disconnect emitted BotSilent and then
\* its Error event, and a token-expired callback appended one more Error event.
C21_Witness ==
  \E h \in handles :
    /\ \A t \in Threads : cb[t].pc = "idle"
    /\ bridge[h].active_channel = "room" /\ bridge[h].connection
    /\ Len(cblog) = 3
    /\ cblog[2].fn = "onDisconnected" /\ cblog[2].value = CONNECTION_CHANGED_INTERRUPTED
    /\ cblog[3].fn = "onNotice"
    /\ Len(pushlog) = 5
    /\ pushlog[3].ev.kind = HEAVEN_AGORA_EVENT_BOT_SILENT
    /\ pushlog[4].ev.kind = HEAVEN_AGORA_EVENT_ERROR /\ pushlog[4].ev.message = "agora_disconnected"
    /\ pushlog[5].ev.kind = HEAVEN_AGORA_EVENT_ERROR /\ pushlog[5].ev.message = "agora_token_expired"
    /\ Len(bridge[h].events) = 5 /\ bridge[h].events[5] = pushlog[5].ev

\* C22 as written: in every state a handle that holds the engine holds the
\* connection too, and no join calls connect on an absent connection: a join
\* that calls connect either found the connection present or created it.
C22_EngineImpliesConnection ==
  /\ [](\A h \in HandleIds : bridge[h].service => bridge[h].connection)
  /\ [][\A h \in HandleIds :
          (StepOf("join", h) /\ HasCall(calls', "connect")) =>
            \/ bridge[h].connection
            \/ \E i \in 1..Len(calls') :
                 calls'[i].fn = "createRtcConnection" /\ calls'[i].rc = 0]_vars

====
